---- MODULE Spec2Model ----
(***************************************************************************)
(* Model of the socket core of nanomsg (src/core/sock.c): the blocking /   *)
(* non-blocking send and receive loop over a pattern's non-blocking hooks, *)
(* option dispatch, pipe membership forwarding, posted-event and timer     *)
(* callbacks of the asynchronous I/O object, and termination.              *)
(*                                                                         *)
(* The pattern (vfptr), the asynchronous I/O object (sp_aio) and the       *)
(* condition variable (sp_cond) are collaborators whose code is not part   *)
(* of sock.c; they are modelled from their documented contract.            *)
(***************************************************************************)
EXTENDS Integers, Sequences, FiniteSets

(* ----------------------------- constants ------------------------------ *)

SP_SOCK_EVENT_IN == 1
SP_SOCK_EVENT_OUT == 2

\* errno values and public constants used by sock.c (set in system / sp.h headers)
EAGAIN == 11
ENOPROTOOPT == 92
EINVAL == 22
SP_SOL_SOCKET == 0
SP_DONTWAIT == 1

(* ------------------------------- bounds ------------------------------- *)

\* how many posted events notify_in / notify_out may enqueue in one run
MaxPosts == 2

Threads == {"t1", "t2"}
Pipes == {"p1", "p2"}
Timers == {"tm1", "tm2"}
Nobody == "nobody"
Dispatcher == "aio"

Levels == {SP_SOL_SOCKET, SP_SOL_SOCKET + 1}
Options == {1, 2}
FlagValues == {0, SP_DONTWAIT}

VARIABLES
    th,        \* per thread: the call it is in, its arguments, position and result
    lock,      \* holder of the aio critical section (sp_aio_lock / sp_aio_unlock)
    events,    \* posted events queued on the aio, oldest first
    posted,    \* number of events posted so far
    disp,      \* the dispatcher's callback in progress
    signals,   \* number of in/out hook results equal to 1 (readiness changed)
    condPosts, \* number of sp_cond_post calls
    res,       \* init / term counts of the cond and the aio, and the fd
    termLog,   \* the steps sp_sock_term has performed, in order
    aborted,   \* an assertion failed: the process is gone
    pattern,   \* which pattern behaviour is bound ("any" or "credit")
    credit     \* credit pattern: sends the pattern can accept now

vars == <<th, lock, events, posted, disp, signals, condPosts, res,
          termLog, aborted, pattern, credit>>

(* ------------------------- pattern behaviour -------------------------- *)

\* Options the bound pattern recognises.
PatternOptions == {1}

\* What a pattern hook may answer.  "any" is an arbitrary pattern; "credit" accepts
\* exactly one send per readiness signal of an out event.
HookResults(hook, option) ==
    CASE hook = "send" ->
            IF pattern = "credit" THEN (IF credit > 0 THEN {0} ELSE {-EAGAIN})
            ELSE {0, -EAGAIN, -EINVAL}
      [] hook = "recv" ->
            IF pattern = "credit" THEN {-EAGAIN} ELSE {0, -EAGAIN, -EINVAL}
      [] hook \in {"setopt", "getopt"} ->
            IF option \in PatternOptions THEN {0, -EINVAL} ELSE {-ENOPROTOOPT}
      [] hook = "add" -> {0, -EINVAL}
      [] hook = "in" -> IF pattern = "credit" THEN {0} ELSE {-1, 0, 1, 2}
      [] hook = "out" -> IF pattern = "credit" THEN {1} ELSE {-1, 0, 1, 2}
      [] OTHER -> {0}

\* Effect of a hook on the credit pattern's private state.
CreditAfter(hook, rc) ==
    IF pattern # "credit" THEN credit
    ELSE IF hook = "send" /\ rc = 0 THEN credit - 1
    ELSE IF hook = "out" /\ rc = 1 THEN credit + 1
    ELSE credit

(* ------------------------------ helpers ------------------------------- *)

IdleThread ==
    [op |-> "none", pc |-> "idle", level |-> 0, option |-> 0, flags |-> 0,
     pipe |-> "none", hopt |-> 0, hpipe |-> "none", rc |-> 0, ret |-> 0,
     calls |-> 0, wakes |-> 0]

IdleDisp ==
    [pc |-> "idle", event |-> 0, hndl |-> "none", hook |-> "none",
     hpipe |-> "none", htimer |-> "none"]

\* flags & bit, for a one-bit mask
HasFlag(flags, bit) == (flags \div bit) % 2 = 1

\* The socket is constructed and sp_sock_term has not been called.
Live == \A t \in Threads : th[t].op # "term"

\* A thread may start a new call on a live socket.
CanCall(t) == ~aborted /\ Live /\ th[t].pc \in {"idle", "done"}

Parked == {t \in Threads : th[t].pc = "parked"}

\* sp_cond_post: wakes at least one of the threads parked in sp_cond_wait, when
\* there is any; how many is not fixed.
sp_cond_post(W) ==
    IF Parked = {} THEN W = {} ELSE W # {} /\ W \subseteq Parked

Wake(thr, W) ==
    [t \in Threads |->
        IF t \in W THEN [thr[t] EXCEPT !.pc = "woken", !.wakes = @ + 1]
        ELSE thr[t]]

(* ------------------------------- Init --------------------------------- *)

\* sp_sockbase_init: vfptr bound, aio and cond initialised, fd stored.
sp_sockbase_init(fd) ==
    /\ th = [t \in Threads |-> IdleThread]
    /\ lock = Nobody
    /\ events = <<>>
    /\ posted = 0
    /\ disp = IdleDisp
    /\ signals = 0
    /\ condPosts = 0
    /\ res = [cond_init |-> 1, cond_term |-> 0, aio_init |-> 1, aio_term |-> 0,
              fd |-> fd]
    /\ termLog = <<>>
    /\ aborted = FALSE
    /\ credit = 0

Init == pattern = "any" /\ sp_sockbase_init(3)

(* ---------------------- set_option / get_option ----------------------- *)

\* Variant: the pattern is consulted for every level but the socket level.
sp_sock_setopt_consults_other(level) == level # SP_SOL_SOCKET

\* sock.c:83 and sock.c:111: the pattern is consulted for this level only.
sp_sock_setopt_consults(level) == level = SP_SOL_SOCKET

sp_sock_getopt_consults(level) == level = SP_SOL_SOCKET

\* Variant: an option nobody knows is reported as set.
sp_sock_setopt_rc_success(consulted, rc) ==
    IF consulted /\ rc # -ENOPROTOOPT THEN rc ELSE 0

\* sock.c:85-95: the value sp_sock_setopt returns, given whether the pattern's
\* hook was called and what it answered.
sp_sock_setopt_rc(consulted, rc) ==
    IF consulted /\ rc # -ENOPROTOOPT THEN rc ELSE -ENOPROTOOPT

\* Variant: every failure of the pattern's hook becomes "option not found".
sp_sock_getopt_rc_collapse(consulted, rc) ==
    IF consulted /\ rc = 0 THEN 0 ELSE -ENOPROTOOPT

\* sock.c:113-123
sp_sock_getopt_rc(consulted, rc) ==
    IF consulted /\ rc # -ENOPROTOOPT THEN rc ELSE -ENOPROTOOPT

\* Entry of an option call: lock, then either call the hook or fall through to
\* "option not found" (unlock and return).
OptEnter(t, opname, level, option, consults, notfound) ==
    /\ CanCall(t)
    /\ lock = Nobody
    /\ IF consults
       THEN /\ th' = [th EXCEPT ![t] = [IdleThread EXCEPT !.op = opname,
                         !.pc = "hook", !.level = level, !.option = option,
                         !.hopt = option, !.calls = 1]]
            /\ lock' = t
       ELSE /\ th' = [th EXCEPT ![t] = [IdleThread EXCEPT !.op = opname,
                         !.pc = "done", !.level = level, !.option = option,
                         !.ret = notfound]]
            /\ lock' = Nobody
    /\ UNCHANGED <<events, posted, disp, signals, condPosts, res,
                   termLog, aborted, pattern, credit>>

sp_sock_setopt(t, level, option) ==
    OptEnter(t, "setopt", level, option, sp_sock_setopt_consults(level),
             sp_sock_setopt_rc(FALSE, 0))

sp_sock_getopt(t, level, option) ==
    OptEnter(t, "getopt", level, option, sp_sock_getopt_consults(level),
             sp_sock_getopt_rc(FALSE, 0))

\* Variant: the error return of sp_sock_setopt forgets sp_aio_unlock.
sp_sock_setopt_hook_leak(t) ==
    /\ ~aborted
    /\ th[t].op = "setopt" /\ th[t].pc = "hook"
    /\ \E rc \in HookResults("setopt", th[t].hopt) :
          /\ th' = [th EXCEPT ![t].rc = rc, ![t].pc = "done",
                              ![t].ret = sp_sock_setopt_rc(TRUE, rc)]
          /\ lock' = IF rc = 0 THEN Nobody ELSE lock
    /\ UNCHANGED <<events, posted, disp, signals, condPosts, res,
                   termLog, aborted, pattern, credit>>

\* The pattern's setopt hook answers; sp_sock_setopt unlocks and returns.
sp_sock_setopt_hook(t) ==
    /\ ~aborted
    /\ th[t].op = "setopt" /\ th[t].pc = "hook"
    /\ \E rc \in HookResults("setopt", th[t].hopt) :
          th' = [th EXCEPT ![t].rc = rc, ![t].pc = "done",
                           ![t].ret = sp_sock_setopt_rc(TRUE, rc)]
    /\ lock' = Nobody
    /\ UNCHANGED <<events, posted, disp, signals, condPosts, res,
                   termLog, aborted, pattern, credit>>

sp_sock_getopt_hook(t) ==
    /\ ~aborted
    /\ th[t].op = "getopt" /\ th[t].pc = "hook"
    /\ \E rc \in HookResults("getopt", th[t].hopt) :
          th' = [th EXCEPT ![t].rc = rc, ![t].pc = "done",
                           ![t].ret = sp_sock_getopt_rc(TRUE, rc)]
    /\ lock' = Nobody
    /\ UNCHANGED <<events, posted, disp, signals, condPosts, res,
                   termLog, aborted, pattern, credit>>

(* --------------------------- send / receive --------------------------- *)

\* Variant: the SP_DONTWAIT test is missing, so every would-block waits.
sp_sock_send_after_noflag(rc, flags) ==
    IF rc = 0 THEN [pc |-> "done", ret |-> 0]
    ELSE IF rc # -EAGAIN THEN [pc |-> "done", ret |-> rc]
    ELSE [pc |-> "parked", ret |-> 0]

\* Variant: a would-block of a blocking send is retried at once, without
\* waiting on the cond.
sp_sock_send_after_poll(rc, flags) ==
    IF rc = 0 THEN [pc |-> "done", ret |-> 0]
    ELSE IF rc # -EAGAIN THEN [pc |-> "done", ret |-> rc]
    ELSE IF HasFlag(flags, SP_DONTWAIT) THEN [pc |-> "done", ret |-> -EAGAIN]
    ELSE [pc |-> "woken", ret |-> 0]

\* Variant: a blocking send that would block reports success.
sp_sock_send_after_spurious(rc, flags) ==
    IF rc = 0 THEN [pc |-> "done", ret |-> 0]
    ELSE IF rc # -EAGAIN THEN [pc |-> "done", ret |-> rc]
    ELSE IF HasFlag(flags, SP_DONTWAIT) THEN [pc |-> "done", ret |-> -EAGAIN]
    ELSE [pc |-> "done", ret |-> 0]

\* sock.c:139-159: what sp_sock_send does with the hook's answer: return (pc
\* "done", with the value) or sp_cond_wait (pc "parked").
sp_sock_send_after(rc, flags) ==
    IF rc = 0 THEN [pc |-> "done", ret |-> 0]
    ELSE IF rc # -EAGAIN THEN [pc |-> "done", ret |-> rc]
    ELSE IF HasFlag(flags, SP_DONTWAIT) THEN [pc |-> "done", ret |-> -EAGAIN]
    ELSE [pc |-> "parked", ret |-> 0]

\* Variant: a blocking recv waits after any failure, not only after -EAGAIN.
sp_sock_recv_after_anyerr(rc, flags) ==
    IF rc = 0 THEN [pc |-> "done", ret |-> 0]
    ELSE IF HasFlag(flags, SP_DONTWAIT) THEN [pc |-> "done", ret |-> rc]
    ELSE [pc |-> "parked", ret |-> 0]

\* sock.c:177-197
sp_sock_recv_after(rc, flags) ==
    IF rc = 0 THEN [pc |-> "done", ret |-> 0]
    ELSE IF rc # -EAGAIN THEN [pc |-> "done", ret |-> rc]
    ELSE IF HasFlag(flags, SP_DONTWAIT) THEN [pc |-> "done", ret |-> -EAGAIN]
    ELSE [pc |-> "parked", ret |-> 0]

\* Entry of send / recv: lock and make the first non-blocking attempt.
IoEnter(t, opname, flags) ==
    /\ CanCall(t)
    /\ lock = Nobody
    /\ lock' = t
    /\ th' = [th EXCEPT ![t] = [IdleThread EXCEPT !.op = opname, !.pc = "hook",
                                    !.flags = flags, !.calls = 1]]
    /\ UNCHANGED <<events, posted, disp, signals, condPosts, res,
                   termLog, aborted, pattern, credit>>

sp_sock_send(t, flags) == IoEnter(t, "send", flags)

sp_sock_recv(t, flags) == IoEnter(t, "recv", flags)

\* The hook answers.  Returning unlocks; sp_cond_wait releases the critical
\* section and parks, in one step.
IoHook(t, opname, rc, after) ==
    /\ ~aborted
    /\ th[t].op = opname /\ th[t].pc = "hook"
    /\ th' = [th EXCEPT ![t].rc = rc, ![t].pc = after.pc, ![t].ret = after.ret]
    /\ lock' = Nobody
    /\ credit' = CreditAfter(opname, rc)
    /\ UNCHANGED <<events, posted, disp, signals, condPosts, res,
                   termLog, aborted, pattern>>

sp_sock_send_hook(t) ==
    \E rc \in HookResults("send", 0) :
        IoHook(t, "send", rc, sp_sock_send_after(rc, th[t].flags))

sp_sock_recv_hook(t) ==
    \E rc \in HookResults("recv", 0) :
        IoHook(t, "recv", rc, sp_sock_recv_after(rc, th[t].flags))

\* sp_cond_wait returns 0 to a woken thread once it has the critical section
\* again; the loop then makes the next attempt (sock.c:159-161, 197-199).
sp_cond_wait_return(t) ==
    /\ ~aborted
    /\ th[t].pc = "woken"
    /\ lock = Nobody
    /\ lock' = t
    /\ th' = [th EXCEPT ![t].pc = "hook", ![t].calls = @ + 1]
    /\ UNCHANGED <<events, posted, disp, signals, condPosts, res,
                   termLog, aborted, pattern, credit>>

(* ------------------------ fd, add_pipe, remove_pipe ------------------- *)

\* Variant: sp_sock_fd returns another field of the sockbase.
sp_sock_fd_wrong(t) ==
    /\ CanCall(t)
    /\ th' = [th EXCEPT ![t] = [IdleThread EXCEPT !.op = "fd", !.pc = "done",
                                    !.ret = res.aio_init]]
    /\ UNCHANGED <<lock, events, posted, disp, signals, condPosts,
                   res, termLog, aborted, pattern, credit>>

\* sock.c:202-208
sp_sock_fd(t) ==
    /\ CanCall(t)
    /\ th' = [th EXCEPT ![t] = [IdleThread EXCEPT !.op = "fd", !.pc = "done",
                                    !.ret = res.fd]]
    /\ UNCHANGED <<lock, events, posted, disp, signals, condPosts,
                   res, termLog, aborted, pattern, credit>>

\* sock.c:210-226: the add / rm hook is called at once; no lock is taken.
PipeEnter(t, opname, p) ==
    /\ CanCall(t)
    /\ th' = [th EXCEPT ![t] = [IdleThread EXCEPT !.op = opname, !.pc = "hook",
                                    !.pipe = p, !.hpipe = p, !.calls = 1]]
    /\ UNCHANGED <<lock, events, posted, disp, signals, condPosts,
                   res, termLog, aborted, pattern, credit>>

sp_sock_add(t, p) == PipeEnter(t, "add", p)

sp_sock_rm(t, p) == PipeEnter(t, "rm", p)

\* Variant: sp_sock_add reports success whatever the add hook answered.
sp_sock_add_hook_swallow(t) ==
    /\ ~aborted
    /\ th[t].op = "add" /\ th[t].pc = "hook"
    /\ \E rc \in HookResults("add", 0) :
          th' = [th EXCEPT ![t].rc = rc, ![t].pc = "done", ![t].ret = 0]
    /\ UNCHANGED <<lock, events, posted, disp, signals, condPosts,
                   res, termLog, aborted, pattern, credit>>

\* sock.c:216: the add hook's answer is the result of sp_sock_add.
sp_sock_add_hook(t) ==
    /\ ~aborted
    /\ th[t].op = "add" /\ th[t].pc = "hook"
    /\ \E rc \in HookResults("add", 0) :
          th' = [th EXCEPT ![t].rc = rc, ![t].pc = "done", ![t].ret = rc]
    /\ UNCHANGED <<lock, events, posted, disp, signals, condPosts,
                   res, termLog, aborted, pattern, credit>>

\* sock.c:225: sp_sock_rm returns nothing.
sp_sock_rm_hook(t) ==
    /\ ~aborted
    /\ th[t].op = "rm" /\ th[t].pc = "hook"
    /\ th' = [th EXCEPT ![t].pc = "done"]
    /\ UNCHANGED <<lock, events, posted, disp, signals, condPosts,
                   res, termLog, aborted, pattern, credit>>

(* --------------------------- notify_in / out -------------------------- *)

\* The event handles embedded in a pipe, and sp_cont, which recovers the pipe
\* from the address of one of them.
inevent(p) == [pipe |-> p, slot |-> "inevent"]

outevent(p) == [pipe |-> p, slot |-> "outevent"]

sp_cont(hndl) == hndl.pipe

\* sp_aio_post: the event is queued on the aio.
sp_aio_post(event, hndl) ==
    /\ ~aborted /\ Live
    /\ posted < MaxPosts
    /\ events' = Append(events, [event |-> event, hndl |-> hndl])
    /\ posted' = posted + 1
    /\ UNCHANGED <<th, lock, disp, signals, condPosts, res, termLog,
                   aborted, pattern, credit>>

\* sock.c:228-232
sp_sock_in(p) == sp_aio_post(SP_SOCK_EVENT_IN, inevent(p))

\* sock.c:234-238
sp_sock_out(p) == sp_aio_post(SP_SOCK_EVENT_OUT, outevent(p))

(* ------------------------ dispatcher callbacks ------------------------ *)

\* Variant: the two cases of the switch call each other's hook.
sp_sock_event_hookname_swapped(event) ==
    CASE event = SP_SOCK_EVENT_IN -> "out"
      [] event = SP_SOCK_EVENT_OUT -> "in"
      [] OTHER -> "assert"

\* sock.c:255-271: the hook sp_sock_event calls for an event tag.
sp_sock_event_hookname(event) ==
    CASE event = SP_SOCK_EVENT_IN -> "in"
      [] event = SP_SOCK_EVENT_OUT -> "out"
      [] OTHER -> "assert"

\* sock.c:259 and 266: errnum_assert (rc >= 0, -rc)
sp_sock_event_assert(rc) == rc >= 0

\* Variant: the cond is posted after every successful hook call.
sp_sock_event_posts_always(rc) == rc >= 0

\* Variant: the cond is posted for every answer but 0.
sp_sock_event_posts_nonzero(rc) == rc # 0

\* Variant: the cond is never posted.
sp_sock_event_posts_never(rc) == FALSE

\* sock.c:260 and 267: if (rc == 1) sp_cond_post
sp_sock_event_posts(rc) == rc = 1

\* The aio takes the critical section and delivers the oldest posted event:
\* sp_sock_event runs up to the call of the in / out hook.
sp_sock_event(e) ==
    /\ ~aborted /\ Live
    /\ events # <<>> /\ e = Head(events)
    /\ disp.pc = "idle"
    /\ lock = Nobody
    /\ lock' = Dispatcher
    /\ events' = Tail(events)
    /\ IF sp_sock_event_hookname(e.event) = "assert"
       THEN /\ aborted' = TRUE
            /\ disp' = [IdleDisp EXCEPT !.pc = "event", !.event = e.event,
                                        !.hndl = e.hndl]
       ELSE /\ aborted' = aborted
            /\ disp' = [IdleDisp EXCEPT !.pc = "event", !.event = e.event,
                           !.hndl = e.hndl,
                           !.hook = sp_sock_event_hookname(e.event),
                           !.hpipe = sp_cont(e.hndl)]
    /\ UNCHANGED <<th, posted, signals, condPosts, res, termLog,
                   pattern, credit>>

\* The in / out hook answers; sp_sock_event asserts, posts the cond when told
\* to, and returns; the aio releases the critical section.
sp_sock_event_hook(rc, W) ==
    /\ ~aborted
    /\ disp.pc = "event"
    /\ rc \in HookResults(disp.hook, 0)
    /\ signals' = IF rc = 1 THEN signals + 1 ELSE signals
    /\ credit' = CreditAfter(disp.hook, rc)
    /\ IF ~sp_sock_event_assert(rc)
       THEN /\ W = {}
            /\ aborted' = TRUE
            /\ UNCHANGED <<th, lock, disp, condPosts>>
       ELSE /\ aborted' = aborted
            /\ lock' = Nobody
            /\ disp' = IdleDisp
            /\ IF sp_sock_event_posts(rc)
               THEN /\ sp_cond_post(W)
                    /\ th' = Wake(th, W)
                    /\ condPosts' = condPosts + 1
               ELSE /\ W = {}
                    /\ UNCHANGED <<th, condPosts>>
    /\ UNCHANGED <<events, posted, res, termLog, pattern>>

\* sock.c:275-282: a timer expires; the aio takes the critical section and
\* sp_sock_timeout calls the timeout hook with the handle.
sp_sock_timeout(hndl) ==
    /\ ~aborted /\ Live
    /\ disp.pc = "idle"
    /\ lock = Nobody
    /\ lock' = Dispatcher
    /\ disp' = [IdleDisp EXCEPT !.pc = "timeout", !.hook = "timeout",
                                !.hndl = hndl, !.htimer = hndl]
    /\ UNCHANGED <<th, events, posted, signals, condPosts, res, termLog,
                   aborted, pattern, credit>>

\* Variant: the timer callback posts the cond when the hook returns.
sp_sock_timeout_hook_posts ==
    /\ ~aborted
    /\ disp.pc = "timeout"
    /\ lock' = Nobody
    /\ disp' = IdleDisp
    /\ th' = Wake(th, Parked)
    /\ condPosts' = condPosts + 1
    /\ UNCHANGED <<events, posted, signals, res,
                   termLog, aborted, pattern, credit>>

\* The timeout hook returns; the aio releases the critical section.
sp_sock_timeout_hook ==
    /\ ~aborted
    /\ disp.pc = "timeout"
    /\ lock' = Nobody
    /\ disp' = IdleDisp
    /\ UNCHANGED <<th, events, posted, signals, condPosts, res,
                   termLog, aborted, pattern, credit>>

\* sock.c:240-244: the aio delivers raw I/O to the socket; sp_sock_io is
\* sp_assert (0).
sp_sock_io ==
    /\ ~aborted /\ Live
    /\ disp.pc = "idle"
    /\ lock = Nobody
    /\ lock' = Dispatcher
    /\ disp' = [IdleDisp EXCEPT !.pc = "io"]
    /\ aborted' = TRUE
    /\ UNCHANGED <<th, events, posted, signals, condPosts, res, termLog,
                   pattern, credit>>

(* ----------------------------- terminate ------------------------------ *)

\* Variant: the cond is terminated before the pattern.
sp_sock_term_order_cond_first == <<"sp_cond_term", "vfptr_term", "sp_aio_term">>

\* Variant: sp_sock_term returns without sp_aio_term.
sp_sock_term_order_no_aio == <<"vfptr_term", "sp_cond_term">>

\* sock.c:62-67: the steps of sp_sock_term, in program order.
sp_sock_term_order == <<"vfptr_term", "sp_cond_term", "sp_aio_term">>

\* Nobody else is inside a call or a callback (the caller's obligation).
Quiescent(t) ==
    /\ \A u \in Threads \ {t} : th[u].pc \in {"idle", "done"}
    /\ disp.pc = "idle"

sp_sock_term(t) ==
    /\ CanCall(t)
    /\ Quiescent(t)
    /\ th' = [th EXCEPT ![t] = [IdleThread EXCEPT !.op = "term", !.pc = "term"]]
    /\ UNCHANGED <<lock, events, posted, disp, signals, condPosts,
                   res, termLog, aborted, pattern, credit>>

sp_sock_term_step(t) ==
    /\ ~aborted
    /\ th[t].op = "term" /\ th[t].pc = "term"
    /\ Len(termLog) < Len(sp_sock_term_order)
    /\ LET s == sp_sock_term_order[Len(termLog) + 1]
           last == Len(termLog) + 1 = Len(sp_sock_term_order)
       IN /\ termLog' = Append(termLog, s)
          /\ th' = [th EXCEPT
                      ![t].pc = IF s = "vfptr_term" THEN "hook"
                                ELSE IF last THEN "done" ELSE "term",
                      ![t].calls = IF s = "vfptr_term" THEN @ + 1 ELSE @]
          /\ res' = [res EXCEPT
                      !.cond_term = IF s = "sp_cond_term" THEN @ + 1 ELSE @,
                      !.aio_term = IF s = "sp_aio_term" THEN @ + 1 ELSE @]
    /\ UNCHANGED <<lock, events, posted, disp, signals, condPosts,
                   aborted, pattern, credit>>

\* The pattern's term hook returns.
sp_sock_term_hook(t) ==
    /\ ~aborted
    /\ th[t].op = "term" /\ th[t].pc = "hook"
    /\ th' = [th EXCEPT ![t].pc = IF Len(termLog) = Len(sp_sock_term_order)
                                  THEN "done" ELSE "term"]
    /\ UNCHANGED <<lock, events, posted, disp, signals, condPosts,
                   res, termLog, aborted, pattern, credit>>

(* --------------------------- specification ---------------------------- *)

Next ==
    \/ \E t \in Threads, l \in Levels, o \in Options : sp_sock_setopt(t, l, o)
    \/ \E t \in Threads, l \in Levels, o \in Options : sp_sock_getopt(t, l, o)
    \/ \E t \in Threads : sp_sock_setopt_hook(t)
    \/ \E t \in Threads : sp_sock_getopt_hook(t)
    \/ \E t \in Threads, f \in FlagValues : sp_sock_send(t, f)
    \/ \E t \in Threads, f \in FlagValues : sp_sock_recv(t, f)
    \/ \E t \in Threads : sp_sock_send_hook(t)
    \/ \E t \in Threads : sp_sock_recv_hook(t)
    \/ \E t \in Threads : sp_cond_wait_return(t)
    \/ \E t \in Threads : sp_sock_fd(t)
    \/ \E t \in Threads, p \in Pipes : sp_sock_add(t, p)
    \/ \E t \in Threads, p \in Pipes : sp_sock_rm(t, p)
    \/ \E t \in Threads : sp_sock_add_hook(t)
    \/ \E t \in Threads : sp_sock_rm_hook(t)
    \/ \E p \in Pipes : sp_sock_in(p)
    \/ \E p \in Pipes : sp_sock_out(p)
    \/ \E e \in {[event |-> ev, hndl |-> h] :
                    ev \in {SP_SOCK_EVENT_IN, SP_SOCK_EVENT_OUT},
                    h \in {inevent(p) : p \in Pipes} \cup
                          {outevent(p) : p \in Pipes}} : sp_sock_event(e)
    \/ \E rc \in {-1, 0, 1, 2}, W \in SUBSET Threads : sp_sock_event_hook(rc, W)
    \/ \E h \in Timers : sp_sock_timeout(h)
    \/ sp_sock_timeout_hook
    \/ \E t \in Threads : sp_sock_term(t)
    \/ \E t \in Threads : sp_sock_term_step(t)
    \/ \E t \in Threads : sp_sock_term_hook(t)

Spec == Init /\ [][Next]_vars

(* Scenario of two blocking senders over the credit pattern: each thread makes *)
(* one blocking send, the transport signals writable pipes, and the pattern    *)
(* accepts one send per readiness signal.  Threads that can run do run, and    *)
(* the aio delivers what is posted; nothing forces a thread to call send or    *)
(* the transport to post.                                                      *)

InitCredit == pattern = "credit" /\ sp_sockbase_init(3)

BlockingSend(t) == th[t].pc = "idle" /\ sp_sock_send(t, 0)

SenderStep(t) == sp_sock_send_hook(t) \/ sp_cond_wait_return(t)

DeliverStep ==
    \/ \E p \in Pipes : sp_sock_event([event |-> SP_SOCK_EVENT_OUT,
                                       hndl |-> outevent(p)])
    \/ \E W \in SUBSET Threads : sp_sock_event_hook(1, W)

NextCredit ==
    \/ \E t \in Threads : BlockingSend(t)
    \/ \E t \in Threads : SenderStep(t)
    \/ \E p \in Pipes : sp_sock_out(p)
    \/ DeliverStep

SpecCredit ==
    /\ InitCredit
    /\ [][NextCredit]_vars
    /\ \A t \in Threads : WF_vars(SenderStep(t))
    /\ WF_vars(DeliverStep)

(* One thread using every operation of a socket constructed with either of   *)
(* two fds, with the transport posting events and the aio delivering them.   *)

Fds == {3, 4}

Caller == "t1"

InitFd == pattern = "any" /\ \E fd \in Fds : sp_sockbase_init(fd)

CallerStep ==
    \/ \E l \in Levels, o \in Options : sp_sock_setopt(Caller, l, o)
    \/ \E l \in Levels, o \in Options : sp_sock_getopt(Caller, l, o)
    \/ sp_sock_setopt_hook(Caller)
    \/ sp_sock_getopt_hook(Caller)
    \/ \E f \in FlagValues : sp_sock_send(Caller, f)
    \/ \E f \in FlagValues : sp_sock_recv(Caller, f)
    \/ sp_sock_send_hook(Caller)
    \/ sp_sock_recv_hook(Caller)
    \/ sp_cond_wait_return(Caller)
    \/ sp_sock_fd(Caller)
    \/ \E p \in Pipes : sp_sock_add(Caller, p)
    \/ \E p \in Pipes : sp_sock_rm(Caller, p)
    \/ sp_sock_add_hook(Caller)
    \/ sp_sock_rm_hook(Caller)

AioStep ==
    \/ \E p \in Pipes : sp_sock_in(p)
    \/ \E p \in Pipes : sp_sock_out(p)
    \/ events # <<>> /\ sp_sock_event(Head(events))
    \/ \E rc \in {-1, 0, 1, 2}, W \in SUBSET Threads : sp_sock_event_hook(rc, W)
    \/ \E h \in Timers : sp_sock_timeout(h)
    \/ sp_sock_timeout_hook

NextFd == CallerStep \/ AioStep

SpecFd == InitFd /\ [][NextFd]_vars

(* The same, with collaborators that break their contract: an event is       *)
(* posted with a tag that is neither IN nor OUT, and raw I/O is delivered.   *)

BadEvent == SP_SOCK_EVENT_OUT + 1

NextFault ==
    \/ CallerStep
    \/ AioStep
    \/ \E p \in Pipes : sp_aio_post(BadEvent, inevent(p))
    \/ sp_sock_io

SpecFault == Init /\ [][NextFault]_vars

(* Scenario of blocking callers over the credit pattern: each thread makes   *)
(* one blocking send or recv, the transport signals readable and writable    *)
(* pipes (the credit pattern answers 0 to the first and 1 to the second).    *)
(* A thread that can run does run, taking the critical section when it is    *)
(* free, and the aio delivers what is posted.                                *)

BlockingCall(t) ==
    /\ th[t].pc = "idle"
    /\ sp_sock_send(t, 0) \/ sp_sock_recv(t, 0)

ThreadStep(t) ==
    \/ sp_sock_send_hook(t)
    \/ sp_sock_recv_hook(t)
    \/ sp_cond_wait_return(t)

DeliverAny ==
    \/ events # <<>> /\ sp_sock_event(Head(events))
    \/ \E rc \in {0, 1}, W \in SUBSET Threads : sp_sock_event_hook(rc, W)

NextWake ==
    \/ \E t \in Threads : BlockingCall(t)
    \/ \E t \in Threads : ThreadStep(t)
    \/ \E p \in Pipes : sp_sock_in(p)
    \/ \E p \in Pipes : sp_sock_out(p)
    \/ DeliverAny

SpecWake ==
    /\ InitCredit
    /\ [][NextWake]_vars
    /\ \A t \in Threads : WF_vars(ThreadStep(t))
    /\ WF_vars(DeliverAny)

(* ------------------------------ properties ---------------------------- *)

IoOps == {"send", "recv"}

OptOps == {"setopt", "getopt"}

NonBlocking(t) == th[t].op \in IoOps /\ HasFlag(th[t].flags, SP_DONTWAIT)

\* C1: a send or recv made with SP_DONTWAIT never parks on the cond: it makes
\* one attempt, is never woken, and when the hook answered -EAGAIN it has
\* returned -EAGAIN with the critical section released.  A parked thread never
\* holds the critical section, so it cannot hold up the non-blocking caller.
C1_NonBlockingNeverParks ==
    /\ \A t \in Threads :
          NonBlocking(t) =>
             /\ th[t].pc \in {"hook", "done"}
             /\ th[t].calls = 1
             /\ th[t].wakes = 0
             /\ (th[t].pc = "done" /\ th[t].rc = -EAGAIN =>
                    th[t].ret = -EAGAIN /\ lock # t)
    /\ \A u \in Parked : lock # u

\* C1 witness: a non-blocking call has returned -EAGAIN while another thread is
\* parked in a blocking call.
C1_Witness ==
    \E t \in Threads, u \in Threads :
        /\ NonBlocking(t) /\ th[t].pc = "done" /\ th[t].ret = -EAGAIN
        /\ th[t].op = "send"
        /\ th[u].op = "send" /\ th[u].pc = "parked"

\* C2 as stated: a parked recv leaves the cond only when an "in" event's hook
\* reports readiness changed.
C2_WokenOnlyByInEvent ==
    [][\A t \in Threads :
          th[t].op = "recv" /\ th[t].pc = "parked" /\ th'[t] # th[t] =>
             /\ disp.pc = "event"
             /\ disp.event = SP_SOCK_EVENT_IN
             /\ signals' = signals + 1]_vars

\* C2 amended: a parked recv leaves the cond only in the step in which a posted
\* event's hook (in or out) reports readiness changed; it is then woken, and a
\* woken recv does nothing but take the critical section and call the recv hook
\* again.  Timer expiry, add, rm, posting and hooks answering 0 leave it parked.
C2_WokenOnlyByReadiness ==
    [][\A t \in Threads :
          th[t].op = "recv" =>
             /\ (th[t].pc = "parked" /\ th'[t] # th[t] =>
                    /\ disp.pc = "event"
                    /\ disp.hook \in {"in", "out"}
                    /\ signals' = signals + 1
                    /\ th'[t] = [th[t] EXCEPT !.pc = "woken", !.wakes = @ + 1])
             /\ (th[t].pc = "woken" /\ th'[t] # th[t] =>
                    /\ lock = Nobody /\ lock' = t
                    /\ th'[t] = [th[t] EXCEPT !.pc = "hook", !.calls = @ + 1])]_vars

\* C2 witness: a blocking recv was woken, called the hook again and returned.
C2_Witness ==
    \E t \in Threads :
        /\ th[t].op = "recv" /\ ~HasFlag(th[t].flags, SP_DONTWAIT)
        /\ th[t].wakes >= 1 /\ th[t].calls >= 2
        /\ th[t].pc = "done" /\ th[t].ret = 0

Completed == {t \in Threads : th[t].op = "send" /\ th[t].pc = "done" /\ th[t].ret = 0}

AllSending == \A t \in Threads : th[t].op = "send"

\* C3: two threads in blocking send over a pattern that accepts one send per
\* readiness signal.  The number of sends that have returned never exceeds the
\* number of readiness signals processed, and a send returns only with
\* success: after one signal at most one has returned and the other is still
\* inside its call, and both have returned only after a second signal.  Once
\* both are sending, one signal lets one of them return and two let both.
C3_OneCompletionPerSignal ==
    /\ [](/\ Cardinality(Completed) <= signals
          /\ \A t \in Threads : th[t].pc = "done" => t \in Completed
          /\ (signals = 1 => \E t \in Threads : th[t].pc # "done"))
    /\ (AllSending /\ signals >= 1 ~> Completed # {})
    /\ (AllSending /\ signals >= 2 ~> Completed = Threads)

\* C3 witness: one readiness signal processed, one send returned after a wake,
\* and the other, woken as well, found nothing to send and parked again.
C3_Witness ==
    \E t \in Threads, u \in Threads :
        /\ pattern = "credit" /\ signals = 1
        /\ t \in Completed /\ th[t].wakes = 1
        /\ th[u].op = "send" /\ th[u].pc = "parked" /\ th[u].calls = 2

\* C4: every pattern hook runs with the critical section held by whoever
\* called it (the calling thread, or the aio for its callbacks), so at most one
\* hook of the socket runs at a time.
C4_HooksUnderLock ==
    /\ \A t \in Threads : th[t].pc = "hook" => lock = t
    /\ (disp.pc # "idle" => lock = Dispatcher)
    /\ Cardinality({t \in Threads : th[t].pc = "hook"}) +
          (IF disp.pc # "idle" THEN 1 ELSE 0) <= 1

\* C5: within one send or recv call the hook is called at most once more than
\* the thread was woken, and a woken thread has not yet called it again: every
\* call after the first follows a wake of its own.
C5_NoPolling ==
    \A t \in Threads :
        th[t].op \in IoOps =>
           /\ th[t].calls <= 1 + th[t].wakes
           /\ (th[t].pc = "woken" => th[t].calls = th[t].wakes)
           /\ (th[t].pc \in {"hook", "parked", "done"} =>
                  th[t].calls = th[t].wakes + 1)

\* C5 witness: a call that invoked the hook three times after two wakes.
C5_Witness ==
    \E t \in Threads :
        th[t].op = "send" /\ th[t].calls = 3 /\ th[t].wakes = 2

\* C6: only -EAGAIN is recovered by waiting.  A thread is parked, woken or in a
\* repeated hook call only after the hook answered -EAGAIN; any other answer is
\* what the call returned, whatever the flags, with the lock released.
C6_OnlyWouldBlockRetried ==
    \A t \in Threads :
        th[t].op \in IoOps =>
           /\ (th[t].pc \in {"parked", "woken"} => th[t].rc = -EAGAIN)
           /\ (th[t].pc = "hook" /\ th[t].calls >= 2 => th[t].rc = -EAGAIN)
           /\ (th[t].pc = "done" /\ th[t].rc # -EAGAIN =>
                  th[t].ret = th[t].rc /\ lock # t)

\* C6 witness: a blocking recv that was woken and then got a failure other
\* than -EAGAIN, and returned it.
C6_Witness ==
    \E t \in Threads :
        /\ th[t].op = "recv" /\ ~HasFlag(th[t].flags, SP_DONTWAIT)
        /\ th[t].wakes >= 1
        /\ th[t].pc = "done" /\ th[t].ret = -EINVAL

\* C7 as stated: an option call with a level other than SP_SOL_SOCKET has
\* called the pattern's hook, with the given option, and returned its answer.
C7_OtherLevelForwarded ==
    \A t \in Threads :
        th[t].op \in OptOps /\ th[t].pc = "done" /\
        th[t].level # SP_SOL_SOCKET =>
           th[t].calls = 1 /\ th[t].hopt = th[t].option /\ th[t].ret = th[t].rc

\* C7 amended: an option call with level SP_SOL_SOCKET calls the pattern's hook
\* once, with the given option, and returns the hook's answer; with any other
\* level the hook is not called and the call returns -ENOPROTOOPT.
C7_SocketLevelForwarded ==
    \A t \in Threads :
        th[t].op \in OptOps =>
           /\ (th[t].pc = "hook" =>
                  th[t].level = SP_SOL_SOCKET /\ th[t].hopt = th[t].option)
           /\ (th[t].pc = "done" /\ th[t].level = SP_SOL_SOCKET =>
                  /\ th[t].calls = 1
                  /\ th[t].hopt = th[t].option
                  /\ th[t].ret = th[t].rc)
           /\ (th[t].pc = "done" /\ th[t].level # SP_SOL_SOCKET =>
                  th[t].calls = 0 /\ th[t].ret = -ENOPROTOOPT)

\* C7 witness: one option call answered by the pattern at the socket level and
\* one call at another level that returned without the pattern.
C7_Witness ==
    \E t \in Threads, u \in Threads :
        /\ th[t].op = "getopt" /\ th[t].pc = "done"
        /\ th[t].level = SP_SOL_SOCKET /\ th[t].calls = 1 /\ th[t].ret = 0
        /\ th[u].op = "setopt" /\ th[u].pc = "done"
        /\ th[u].level # SP_SOL_SOCKET /\ th[u].ret = -ENOPROTOOPT

\* C8: an option call whose option the pattern does not recognise (no generic
\* option exists) returns -ENOPROTOOPT with the critical section released; an
\* option call is never parked or woken, and none of its steps aborts.
C8_UnknownOption ==
    /\ [](\A t \in Threads :
            th[t].op \in OptOps =>
               /\ th[t].pc \in {"hook", "done"}
               /\ th[t].wakes = 0
               /\ (th[t].pc = "done" => lock # t)
               /\ (th[t].pc = "done" /\ th[t].option \notin PatternOptions =>
                      th[t].ret = -ENOPROTOOPT))
    /\ [][\A t \in Threads :
            (th[t].op \in OptOps \/ th'[t].op \in OptOps) /\ th'[t] # th[t] =>
               aborted' = aborted]_vars

\* C8 witness: set_option at the socket level, the pattern consulted and not
\* recognising the option, -ENOPROTOOPT returned.
C8_Witness ==
    \E t \in Threads :
        /\ th[t].op = "setopt" /\ th[t].pc = "done"
        /\ th[t].level = SP_SOL_SOCKET /\ th[t].option \notin PatternOptions
        /\ th[t].calls = 1 /\ th[t].ret = -ENOPROTOOPT /\ lock # t

\* C9: when the pattern's option hook was called and answered anything but
\* -ENOPROTOOPT, the call returned that answer; -ENOPROTOOPT is returned only
\* when the hook was not called or answered -ENOPROTOOPT itself.
C9_HookAnswerUnchanged ==
    \A t \in Threads :
        th[t].op \in OptOps /\ th[t].pc = "done" =>
           /\ (th[t].calls = 1 /\ th[t].rc # -ENOPROTOOPT =>
                  th[t].ret = th[t].rc)
           /\ (th[t].ret = -ENOPROTOOPT =>
                  th[t].calls = 0 \/ th[t].rc = -ENOPROTOOPT)

\* C9 witness: get_option whose hook rejected the value, and the rejection was
\* returned.
C9_Witness ==
    \E t \in Threads :
        /\ th[t].op = "getopt" /\ th[t].pc = "done" /\ th[t].calls = 1
        /\ th[t].rc = -EINVAL /\ th[t].ret = -EINVAL

\* C10: sp_sock_term runs the pattern's term hook, then terminates the cond,
\* then the aio; while the term hook runs neither has been terminated.
C10_TermOrder ==
    /\ \A i \in 1..Len(termLog) :
          termLog[i] = <<"vfptr_term", "sp_cond_term", "sp_aio_term">>[i]
    /\ (\E t \in Threads : th[t].op = "term" /\ th[t].pc = "hook") =>
          res.cond_term = 0 /\ res.aio_term = 0
    /\ (res.aio_term > 0 => res.cond_term > 0)
    /\ res.cond_term <= res.cond_init /\ res.aio_term <= res.aio_init

\* C10 witness: a terminate that ran all three steps.
C10_Witness ==
    \E t \in Threads :
        /\ th[t].op = "term" /\ th[t].pc = "done" /\ th[t].calls = 1
        /\ Len(termLog) = 3 /\ res.cond_term = 1 /\ res.aio_term = 1

\* C11: sp_sock_in / sp_sock_out only queue an event on the aio, tagged IN
\* with the pipe's inevent or OUT with its outevent: the step touches no
\* thread, no callback, no lock and posts no cond.  When the aio delivers the
\* event, the hook that runs is the one of the tag, with the pipe the handle
\* belongs to.
C11_NotifyOnlyPosts ==
    /\ [](/\ \A i \in 1..Len(events) :
               \/ events[i].event = SP_SOCK_EVENT_IN /\
                  events[i].hndl.slot = "inevent"
               \/ events[i].event = SP_SOCK_EVENT_OUT /\
                  events[i].hndl.slot = "outevent"
          /\ (disp.pc = "event" =>
                /\ disp.hook = (IF disp.hndl.slot = "inevent" THEN "in" ELSE "out")
                /\ disp.hook = (IF disp.event = SP_SOCK_EVENT_IN THEN "in" ELSE "out")
                /\ disp.hpipe = disp.hndl.pipe))
    /\ [][posted' # posted =>
            /\ posted' = posted + 1
            /\ Len(events') = Len(events) + 1
            /\ UNCHANGED <<th, lock, disp, signals, condPosts, aborted>>]_vars

\* C11 witness: the out hook running for pipe p2 after a notify for p2, with
\* another notify still queued.
C11_Witness ==
    /\ disp.pc = "event" /\ disp.hook = "out" /\ disp.hpipe = "p2"
    /\ disp.hndl = outevent("p2")
    /\ Len(events) = 1 /\ events[1].event = SP_SOCK_EVENT_IN

\* C14: sp_cond_post is called in a step exactly when an in / out hook
\* answered 1 in that step, once; a step in which no hook answered 1 leaves
\* every parked thread parked, and one in which a hook answered 1 wakes a
\* parked thread when there is one.
C14_PostIffReadiness ==
    /\ [](condPosts = signals)
    /\ [][/\ condPosts' - condPosts = signals' - signals
          /\ signals' - signals \in {0, 1}
          /\ (signals' = signals =>
                \A t \in Parked : th'[t] = th[t])
          /\ (signals' # signals /\ Parked # {} =>
                \E t \in Parked : th'[t].pc = "woken")]_vars

\* C14 witness: two events were processed, one hook answered 1 and one did not;
\* the cond was posted once and a thread is woken.
C14_Witness ==
    /\ posted = 2 /\ events = <<>> /\ disp.pc = "idle" /\ ~aborted
    /\ signals = 1 /\ condPosts = 1
    /\ \E t \in Threads : th[t].pc = "woken"

\* C16: the timer callback calls the timeout hook with the handle of the timer
\* that expired, once, under the critical section, and does nothing else: from
\* delivery to return no thread changes state, the cond is not posted and no
\* event is queued or consumed by it, so a parked thread stays parked.
C16_TimeoutOnlyCallsHook ==
    /\ [](disp.pc = "timeout" =>
             /\ disp.hook = "timeout"
             /\ disp.htimer = disp.hndl
             /\ disp.htimer \in Timers
             /\ lock = Dispatcher)
    /\ [][(disp.pc = "timeout" \/ disp'.pc = "timeout") /\ disp' # disp =>
             /\ (disp.pc = "timeout" => disp' = IdleDisp)
             /\ (disp'.pc = "timeout" => disp = IdleDisp)
             /\ UNCHANGED <<th, events, posted, signals, condPosts, res,
                            aborted>>]_vars

\* C16 witness: the timeout hook is running for timer tm2 while a recv is
\* parked and the cond has never been posted.
C16_Witness ==
    /\ disp.pc = "timeout" /\ disp.htimer = "tm2"
    /\ \E t \in Threads : th[t].pc = "parked" /\ th[t].op = "recv"
    /\ condPosts = 0

\* C17: sp_sock_add calls the add hook once with the pipe it was given and
\* returns the hook's answer; sp_sock_rm calls the rm hook once with the pipe it
\* was given.  A step of either call posts no cond, queues no event, leaves the
\* fd and the critical section alone and changes no other thread.
C17_AddRmForward ==
    /\ [](\A t \in Threads :
             th[t].op \in {"add", "rm"} =>
                /\ th[t].pc \in {"hook", "done"}
                /\ th[t].calls = 1
                /\ th[t].hpipe = th[t].pipe
                /\ th[t].pipe \in Pipes
                /\ th[t].wakes = 0
                /\ (th[t].op = "add" /\ th[t].pc = "done" =>
                       th[t].ret = th[t].rc))
    /\ [][\A t \in Threads :
             th'[t] # th[t] /\ th'[t].op \in {"add", "rm"} =>
                /\ UNCHANGED <<lock, events, posted, disp, signals,
                               condPosts, res>>
                /\ \A u \in Threads \ {t} : th'[u] = th[u]]_vars

\* C17 witness: sp_sock_add for pipe p2 has returned the hook's -EINVAL while
\* another thread is parked.
C17_Witness ==
    \E t \in Threads, u \in Threads :
        /\ th[t].op = "add" /\ th[t].pc = "done" /\ th[t].pipe = "p2"
        /\ th[t].ret = -EINVAL
        /\ th[u].pc = "parked"

LockOps == IoOps \cup OptOps

\* Who is inside the critical section by its own program position.
Holders ==
    {t \in Threads : th[t].op \in LockOps /\ th[t].pc = "hook"} \cup
    (IF disp.pc # "idle" THEN {Dispatcher} ELSE {})

\* C18: the critical section is held by exactly the thread or callback that is
\* between its sp_aio_lock and its sp_aio_unlock, so by one at most: a thread
\* that has returned from setopt, getopt, send or recv, or that is parked in
\* sp_cond_wait, holds nothing.  It is taken only when free, and a thread gives
\* it up only by returning or, in send / recv, by parking in sp_cond_wait.
C18_LockDiscipline ==
    /\ [](Holders = (IF lock = Nobody THEN {} ELSE {lock}))
    /\ [][\A t \in Threads :
             /\ (lock' = t /\ lock # t =>
                    /\ lock = Nobody
                    /\ th[t].pc \in {"idle", "done", "woken"}
                    /\ th'[t].op \in LockOps)
             /\ (lock = t /\ lock' # t =>
                    /\ lock' = Nobody
                    /\ th'[t].pc \in {"done", "parked"}
                    /\ (th'[t].pc = "parked" => th[t].op \in IoOps))]_vars

\* C18 witness: a woken sender is back inside the critical section while the
\* other thread has returned an error from setopt.
C18_Witness ==
    \E t \in Threads, u \in Threads :
        /\ lock = t /\ th[t].op = "send" /\ th[t].wakes = 1
        /\ th[u].op = "setopt" /\ th[u].pc = "done" /\ th[u].ret = -EINVAL

\* C12: sp_sock_term on a quiescent socket takes no lock and waits on no cond:
\* while it runs the critical section is free, nobody is parked, and its next
\* step can always be taken.  When it has returned, the cond and the aio have
\* each been terminated once, as often as they were initialised, and never
\* more often than that in between.
C12_TermReleasesAll ==
    /\ res.cond_term <= res.cond_init /\ res.aio_term <= res.aio_init
    /\ \A t \in Threads :
          th[t].op = "term" =>
             /\ lock = Nobody /\ Parked = {} /\ ~aborted
             /\ th[t].pc \in {"term", "hook", "done"}
             /\ th[t].wakes = 0
             /\ (th[t].pc # "done" =>
                    ENABLED (sp_sock_term_step(t) \/ sp_sock_term_hook(t)))
             /\ (th[t].pc = "done" =>
                    /\ res.cond_init = 1 /\ res.cond_term = res.cond_init
                    /\ res.aio_init = 1 /\ res.aio_term = res.aio_init)

\* C12 witness: sp_sock_term has returned on a socket that had been used (the
\* other thread returned from a call that was woken once) and all is released.
C12_Witness ==
    \E t \in Threads, u \in Threads :
        /\ th[t].op = "term" /\ th[t].pc = "done"
        /\ res.cond_term = 1 /\ res.aio_term = 1
        /\ th[u].op = "recv" /\ th[u].pc = "done" /\ th[u].wakes = 1

\* C13: sp_sock_fd returns the fd the sockbase was initialised with, whatever
\* was done with the socket before, and no step changes the stored fd.
C13_FdStable ==
    /\ [](/\ res.fd \in Fds
          /\ \A t \in Threads :
                th[t].op = "fd" => th[t].pc = "done" /\ th[t].ret = res.fd)
    /\ [][res'.fd = res.fd]_vars

\* C13 witness: sp_sock_fd returned 4 after two events were posted and
\* processed, one of which posted the cond, and a timer expired.
C13_Witness ==
    /\ th[Caller].op = "fd" /\ th[Caller].ret = 4
    /\ posted = 2 /\ events = <<>> /\ condPosts = 1
    /\ disp.pc = "timeout"

\* C15 as stated: every breach of the internal contract aborts without posting
\* the cond: raw I/O delivered, an event whose tag is neither IN nor OUT, and
\* an in / out hook answering anything but 0 or 1, so that sp_sock_event can
\* never complete such an answer without aborting.
C15_ViolationsAbort ==
    /\ (disp.pc = "io" => aborted)
    /\ (disp.pc = "event" /\ disp.event \notin {SP_SOCK_EVENT_IN, SP_SOCK_EVENT_OUT}
           => aborted /\ disp.hook = "none")
    /\ (aborted => condPosts = signals)
    /\ (disp.pc = "event" /\ ~aborted =>
           \A rc \in HookResults(disp.hook, 0) \ {0, 1} :
              ~ENABLED (\E W \in SUBSET Threads :
                           /\ sp_sock_event_hook(rc, W)
                           /\ (~aborted' \/ condPosts' # condPosts)))

\* C19: no wake-up is lost.  In the step in which an in / out hook answers 1,
\* no thread is between the -EAGAIN of its hook and sp_cond_wait (none is
\* inside a send / recv hook), and a parked thread, when there is one, is
\* woken.  Under fair scheduling a woken thread calls its hook again; and a
\* woken sender that is the only sender, with a send the pattern will accept,
\* returns 0 unless another sender turns up.
C19_NoLostWakeup ==
    /\ [][signals' # signals =>
            /\ \A t \in Threads : ~(th[t].op \in IoOps /\ th[t].pc = "hook")
            /\ (Parked # {} => \E t \in Parked : th'[t].pc = "woken")]_vars
    /\ \A t \in Threads : \A n \in 1..(MaxPosts + 1) :
          (th[t].pc = "woken" /\ th[t].calls = n)
             ~> (th[t].calls = n + 1)
    /\ \A t \in Threads :
          (/\ th[t].op = "send" /\ th[t].pc = "woken" /\ credit > 0
           /\ \A u \in Threads \ {t} : th[u].op # "send")
             ~> (\/ th[t].pc = "done" /\ th[t].ret = 0
                 \/ \E u \in Threads \ {t} : th[u].op = "send")

\* C19 witness: a sender that was parked and woken has returned 0 while a
\* receiver, woken by the same post, has called its hook again and is parked.
C19_Witness ==
    \E t \in Threads, u \in Threads :
        /\ th[t].op = "send" /\ th[t].pc = "done" /\ th[t].ret = 0
        /\ th[t].wakes = 1 /\ th[t].calls = 2
        /\ th[u].op = "recv" /\ th[u].pc = "parked" /\ th[u].calls = 2

====
